---- MODULE Spec2Model ----
(***************************************************************************)
(* Model of metagpt/config.py: class Config.                               *)
(*                                                                         *)
(* Config.__init__ merges os.environ, the primary YAML file, the key YAML  *)
(* file and the caller's options into the dict self._configs, then _parse  *)
(* validates the credentials, configures the openai client's globals and   *)
(* assigns the named attributes.  get and runtime_options read the result. *)
(*                                                                         *)
(* Python values are records [t |-> type name, v |-> literal]; a dict is a *)
(* function whose DOMAIN is its key set.                                   *)
(***************************************************************************)
EXTENDS Naturals, Sequences, FiniteSets

VARIABLES
    env,         \* os.environ when Config(...) is called
    primary,     \* the file at yaml_file: [kind, data]
    keyfile,     \* the file at Config.key_yaml_file: [kind, data]
    options,     \* the options argument (the empty dict stands for None / {})
    openai,      \* the openai module's globals: [proxy, api_base]
    openai_pre,  \* openai's globals when the constructor was entered
    pc,          \* "new" | "ready" | "failed"
    error,       \* the exception that left the constructor, or "none"
    heap,        \* the dict objects; heap[ConfigsRef] is self._configs
    attrs,       \* vars(self) without _configs: attribute name -> value
    held,        \* references to the dicts runtime_options handed to the caller
    ret          \* the caller's last call: [op, ref, key, args, outcome]

vars == <<env, primary, keyfile, options, openai, openai_pre, pc, error, heap, attrs, held, ret>>

(***************************************************************************)
(* Bounds of the model.                                                    *)
(***************************************************************************)
\* Items of content over all inputs of one construction: entries of env, of
\* the two YAML mappings and of options; a YAML file that exists without
\* being a mapping and a preconfigured openai client count one each.  An
\* OPENAI_API_KEY that the environment exports beforehand is not counted.
\* MaxEntries bounds the items over the keys _parse acts on (CoreKeys),
\* MaxProbes the items over every key (SourceKeys).
MaxEntries == 2
MaxProbes == 1
\* Entries of the primary YAML mapping and of options, beside the API key in
\* os.environ, in the constructions whose object is then used.
MaxRuntimeEntries == 1
\* Dicts obtained from runtime_options that the caller keeps.
MaxSnapshots == 2

(***************************************************************************)
(* Python values.                                                          *)
(***************************************************************************)
None == [t |-> "NoneType", v |-> "None"]
Str(s) == [t |-> "str", v |-> s]
Int(s) == [t |-> "int", v |-> s]
Float(s) == [t |-> "float", v |-> s]
Bool(s) == [t |-> "bool", v |-> s]
Member(cls, s) == [t |-> cls, v |-> s]

\* bool(x) for the values above
Truthy(x) ==
    /\ x # None
    /\ x # Str("")
    /\ x # Int("0")
    /\ x # Float("0.0")
    /\ x # Bool("False")

\* a or b
Or(a, b) == IF Truthy(a) THEN a ELSE b

(***************************************************************************)
(* dicts.                                                                  *)
(***************************************************************************)
EmptyDict == [k \in {} |-> None]

\* d.update(u), as a value
Update(d, u) == [k \in DOMAIN d \cup DOMAIN u |-> IF k \in DOMAIN u THEN u[k] ELSE d[k]]

\* d[k] = v
SetItem(d, k, v) == [x \in DOMAIN d \cup {k} |-> IF x = k THEN v ELSE d[x]]

\* del d[k]
DelItem(d, k) == [x \in DOMAIN d \ {k} |-> d[x]]

\* d.get(key, default); d.get(key) is d.get(key, None)
DictGet(d, key, default) == IF key \in DOMAIN d THEN d[key] ELSE default

(***************************************************************************)
(* The enumerations of metagpt.tools.  Calling an Enum class with a member *)
(* returns the member, with a member's value returns that member, and with *)
(* anything else raises ValueError.                                        *)
(***************************************************************************)
EnumValues(cls) ==
    IF cls = "SearchEngineType" THEN {"serpapi", "serper", "google", "ddg", "custom"}
    ELSE {"playwright", "selenium", "custom"}

SERPAPI_GOOGLE == Member("SearchEngineType", "serpapi")
PLAYWRIGHT == Member("WebBrowserEngineType", "playwright")

EnumCall(cls, x) ==
    IF x.t = cls /\ x.v \in EnumValues(cls) THEN [ok |-> TRUE, value |-> x]
    ELSE IF x.t = "str" /\ x.v \in EnumValues(cls) THEN [ok |-> TRUE, value |-> Member(cls, x.v)]
    ELSE [ok |-> FALSE, value |-> None]

(***************************************************************************)
(* Config._parse.                                                          *)
(***************************************************************************)
Row(a, k, d) == [attr |-> a, key |-> k, default |-> d]

\* lines 56-58: the attributes read before the credential check
CredentialRows == <<
    Row("global_proxy", "GLOBAL_PROXY", None),
    Row("openai_api_key", "OPENAI_API_KEY", None),
    Row("anthropic_api_key", "Anthropic_API_KEY", None) >>

\* lines 63-79: the attributes read between the check and the enum conversions
ClientRows == <<
    Row("openai_api_base", "OPENAI_API_BASE", None),
    Row("openai_api_type", "OPENAI_API_TYPE", None),
    Row("openai_api_version", "OPENAI_API_VERSION", None),
    Row("openai_api_rpm", "RPM", Int("3")),
    Row("openai_api_model", "OPENAI_API_MODEL", Str("gpt-4")),
    Row("max_tokens_rsp", "MAX_TOKENS", Int("2048")),
    Row("deployment_id", "DEPLOYMENT_ID", None),
    Row("claude_api_key", "Anthropic_API_KEY", None),
    Row("serpapi_api_key", "SERPAPI_API_KEY", None),
    Row("serper_api_key", "SERPER_API_KEY", None),
    Row("google_api_key", "GOOGLE_API_KEY", None),
    Row("google_cse_id", "GOOGLE_CSE_ID", None) >>

\* lines 82-95: the attributes read after the enum conversions
ToolRows == <<
    Row("playwright_browser_type", "PLAYWRIGHT_BROWSER_TYPE", Str("chromium")),
    Row("selenium_browser_type", "SELENIUM_BROWSER_TYPE", Str("chrome")),
    Row("long_term_memory", "LONG_TERM_MEMORY", Bool("False")),
    Row("max_budget", "MAX_BUDGET", Float("10.0")),
    Row("puppeteer_config", "PUPPETEER_CONFIG", Str("")),
    Row("mmdc", "MMDC", Str("mmdc")),
    Row("calc_usage", "CALC_USAGE", Bool("True")),
    Row("model_for_researcher_summary", "MODEL_FOR_RESEARCHER_SUMMARY", None),
    Row("model_for_researcher_report", "MODEL_FOR_RESEARCHER_REPORT", None) >>

\* a _get that drops the default it is given
GetWithoutDefault(configs, key, default) == DictGet(configs, key, None)

\* self._get(*args, **kwargs)
_get(configs, key, default) == DictGet(configs, key, default)

\* self.<attr> = self._get(<key>, <default>) for each row
SetAttrs(obj, configs, rows) ==
    LET new == [a \in {rows[i].attr : i \in DOMAIN rows} |->
                  LET r == CHOOSE r \in {rows[i] : i \in DOMAIN rows} : r.attr = a
                  IN  _get(configs, r.key, r.default)]
    IN  Update(obj, new)

\* a credential check that wants both keys set
EitherCredentialMissing(openai_api_key, anthropic_api_key) ==
    \/ (~Truthy(openai_api_key) \/ Str("YOUR_API_KEY") = openai_api_key)
    \/ (~Truthy(anthropic_api_key) \/ Str("YOUR_API_KEY") = anthropic_api_key)

\* lines 59-61: the condition under which NotConfiguredException is raised
MissingCredentials(openai_api_key, anthropic_api_key) ==
    /\ (~Truthy(openai_api_key) \/ Str("YOUR_API_KEY") = openai_api_key)
    /\ (~Truthy(anthropic_api_key) \/ Str("YOUR_API_KEY") = anthropic_api_key)

\* a proxy resolution that prefers GLOBAL_PROXY to OPENAI_PROXY
ApplyProxyGlobalFirst(configs, obj, client) ==
    LET openai_proxy == Or(obj["global_proxy"], _get(configs, "OPENAI_PROXY", None))
    IN  IF Truthy(openai_proxy)
        THEN [proxy |-> openai_proxy, api_base |-> obj["openai_api_base"]]
        ELSE client

\* lines 64-67: openai.proxy and openai.api_base after the proxy is resolved
ApplyProxy(configs, obj, client) ==
    LET openai_proxy == Or(_get(configs, "OPENAI_PROXY", None), obj["global_proxy"])
    IN  IF Truthy(openai_proxy)
        THEN [proxy |-> openai_proxy, api_base |-> obj["openai_api_base"]]
        ELSE client

\* lines 63-95: _parse once the credential check has passed
ParseTail(configs, obj, client) ==
    LET a2 == SetAttrs(obj, configs, SubSeq(ClientRows, 1, 1))
        client2 == ApplyProxy(configs, a2, client)
        a3 == SetAttrs(a2, configs, SubSeq(ClientRows, 2, Len(ClientRows)))
        se == EnumCall("SearchEngineType", _get(configs, "SEARCH_ENGINE", SERPAPI_GOOGLE))
        wb == EnumCall("WebBrowserEngineType", _get(configs, "WEB_BROWSER_ENGINE", PLAYWRIGHT))
    IN  IF ~se.ok
        THEN [status |-> "ValueError", attrs |-> a3, openai |-> client2]
        ELSE IF ~wb.ok
        THEN [status |-> "ValueError", attrs |-> SetItem(a3, "search_engine", se.value),
              openai |-> client2]
        ELSE LET a4 == SetItem(SetItem(a3, "search_engine", se.value),
                               "web_browser_engine", wb.value)
                 a5 == SetItem(SetAttrs(a4, configs, ToolRows), "total_cost", Float("0.0"))
             IN  [status |-> "ok", attrs |-> a5, openai |-> client2]

\* a _parse that configures the openai client before it checks the credentials
ParseProxyFirst(configs, client) ==
    LET a1 == SetAttrs(EmptyDict, configs, CredentialRows)
    IN  IF MissingCredentials(a1["openai_api_key"], a1["anthropic_api_key"])
        THEN [status |-> "NotConfiguredException", attrs |-> a1,
              openai |-> ApplyProxy(configs,
                                    SetAttrs(a1, configs, SubSeq(ClientRows, 1, 1)), client)]
        ELSE ParseTail(configs, a1, client)

\* lines 54-95
_parse(configs, client) ==
    LET a1 == SetAttrs(EmptyDict, configs, CredentialRows)
    IN  IF MissingCredentials(a1["openai_api_key"], a1["anthropic_api_key"])
        THEN [status |-> "NotConfiguredException", attrs |-> a1, openai |-> client]
        ELSE ParseTail(configs, a1, client)

(***************************************************************************)
(* Config._init_with_config_files_and_env.                                 *)
(***************************************************************************)
\* a loop that opens the file without asking whether it exists
LoadYamlNoExistsCheck(configs, file) ==
    IF file.kind = "missing" THEN [status |-> "FileNotFoundError", configs |-> configs]
    ELSE IF file.kind = "malformed" THEN [status |-> "YAMLError", configs |-> configs]
    ELSE IF file.kind = "empty" THEN [status |-> "ok", configs |-> configs]
    ELSE IF file.kind = "scalar" THEN [status |-> "ValueError", configs |-> configs]
    ELSE [status |-> "ok", configs |-> Update(configs, file.data)]

\* a loop that updates with whatever yaml.safe_load returned
LoadYamlNoEmptyCheck(configs, file) ==
    IF file.kind = "missing" THEN [status |-> "ok", configs |-> configs]
    ELSE IF file.kind = "malformed" THEN [status |-> "YAMLError", configs |-> configs]
    ELSE IF file.kind = "empty" THEN [status |-> "TypeError", configs |-> configs]
    ELSE IF file.kind = "scalar" THEN [status |-> "ValueError", configs |-> configs]
    ELSE [status |-> "ok", configs |-> Update(configs, file.data)]

\* One turn of the loop of lines 101-110 over the file `file`:
\*   missing    _yaml_file.exists() is false: continue
\*   malformed  yaml.safe_load raises yaml.YAMLError
\*   empty      yaml.safe_load returns None (or another falsy document): continue
\*   scalar     yaml.safe_load returns a plain string: configs.update raises ValueError
\*   mapping    configs.update(yaml_data)
LoadYaml(configs, file) ==
    IF file.kind = "missing" THEN [status |-> "ok", configs |-> configs]
    ELSE IF file.kind = "malformed" THEN [status |-> "YAMLError", configs |-> configs]
    ELSE IF file.kind = "empty" THEN [status |-> "ok", configs |-> configs]
    ELSE IF file.kind = "scalar" THEN [status |-> "ValueError", configs |-> configs]
    ELSE [status |-> "ok", configs |-> Update(configs, file.data)]

\* a loop over [self.key_yaml_file, yaml_file]
InitKeyFileFirst(configs, yaml_file, key_yaml_file, environ) ==
    LET first == LoadYaml(Update(configs, environ), key_yaml_file)
    IN  IF first.status # "ok" THEN first ELSE LoadYaml(first.configs, yaml_file)

\* lines 97-110, the loop over [yaml_file, self.key_yaml_file] unrolled
_init_with_config_files_and_env(configs, yaml_file, key_yaml_file, environ) ==
    LET first == LoadYaml(Update(configs, environ), yaml_file)
    IN  IF first.status # "ok" THEN first ELSE LoadYaml(first.configs, key_yaml_file)

\* lines 50-51: if options: self._configs.update(options)
ApplyOptions(configs, opts) == IF opts # EmptyDict THEN Update(configs, opts) ELSE configs

(***************************************************************************)
(* The inputs of a construction.                                           *)
(***************************************************************************)
\* the keys _parse reads
ConfigKeys ==
    {CredentialRows[i].key : i \in DOMAIN CredentialRows}
        \cup {ClientRows[i].key : i \in DOMAIN ClientRows}
        \cup {ToolRows[i].key : i \in DOMAIN ToolRows}
        \cup {"OPENAI_PROXY", "SEARCH_ENGINE", "WEB_BROWSER_ENGINE"}

\* the keys a source may hold: those, a key no attribute is read from, and a
\* key spelled like an attribute
SourceKeys == ConfigKeys \cup {"NOT_A_KEY", "total_cost"}

\* a string by which the source of a value is recognised
Mark(src) ==
    IF src = "env" THEN "from-env"
    ELSE IF src = "primary" THEN "from-primary"
    ELSE IF src = "keys" THEN "from-keys"
    ELSE "from-override"

Numeral(src) == IF src = "primary" THEN "10" ELSE IF src = "keys" THEN "20" ELSE "30"

\* the values source src may give key k: os.environ holds strings only, a
\* YAML mapping and the options hold typed scalars and nulls
SourceValues(src, k) ==
    IF k \in {"OPENAI_API_KEY", "Anthropic_API_KEY"}
    THEN {Str(""), Str("YOUR_API_KEY"), Str(Mark(src))}
             \cup (IF src = "env" THEN {} ELSE {None})
    ELSE IF k = "OPENAI_PROXY" THEN {Str(""), Str(Mark(src))}
    ELSE IF k = "SEARCH_ENGINE" THEN {Str("serper"), Str(Mark(src))}
    ELSE IF k = "WEB_BROWSER_ENGINE" THEN {Str("selenium"), Str(Mark(src))}
    ELSE IF src = "env" THEN {Str(Mark(src))}
    ELSE IF k \in {"RPM", "MAX_TOKENS"} THEN {Int(Numeral(src))}
    ELSE IF k = "MAX_BUDGET" THEN {Float(Numeral(src))}
    ELSE IF k \in {"LONG_TERM_MEMORY", "CALC_USAGE"}
    THEN {Bool(IF src = "keys" THEN "False" ELSE "True")}
    ELSE {Str(Mark(src))}

RECURSIVE SubsetsOfSize(_, _)
SubsetsOfSize(S, n) ==
    IF n = 0 THEN {{}}
    ELSE IF S = {} THEN {}
    ELSE LET x == CHOOSE x \in S : TRUE
         IN  SubsetsOfSize(S \ {x}, n) \cup {T \cup {x} : T \in SubsetsOfSize(S \ {x}, n - 1)}

\* the dicts with n keys of pool that source src can hold
Dicts(src, pool, n) ==
    UNION { {d \in [ks -> UNION {SourceValues(src, k) : k \in ks}] :
                \A k \in ks : d[k] \in SourceValues(src, k)} : ks \in SubsetsOfSize(pool, n) }

File(kind, data) == [kind |-> kind, data |-> data]

\* the YAML files of n items: no file, a file that is no mapping, or a mapping
\* of n entries
Files(src, pool, n) ==
    IF n = 0 THEN {File("missing", EmptyDict)}
    ELSE {File("mapping", d) : d \in Dicts(src, pool, n)}
             \cup (IF n = 1
                   THEN {File(kind, EmptyDict) : kind \in {"empty", "malformed", "scalar"}}
                   ELSE {})

\* the openai module as imported, and as an earlier caller configured it
Clients(n) ==
    IF n = 0 THEN {[proxy |-> None, api_base |-> Str("https://api.openai.com/v1")]}
    ELSE {[proxy |-> Str("http://earlier-proxy"), api_base |-> Str("http://earlier-base")]}

NoCall == [op |-> "none", ref |-> 0, key |-> "", given |-> FALSE, default |-> None, outcome |-> "none", value |-> None]

\* the keys on which _parse branches or acts
CoreKeys ==
    {"OPENAI_API_KEY", "Anthropic_API_KEY", "OPENAI_PROXY", "GLOBAL_PROXY",
     "OPENAI_API_BASE", "SEARCH_ENGINE", "WEB_BROWSER_ENGINE"}

\* os.environ before the entries of the budget: empty, or exporting an API key
Exported == {EmptyDict, [k \in {"OPENAI_API_KEY"} |-> Str(Mark("env"))]}

InitInputs(pool, exported, budget) ==
    \E ne, np, nk \in 0..budget, no \in 0..budget, nc \in 0..1 :
        /\ ne + np + nk + no + nc <= budget
        /\ env \in {Update(base, d) : base \in exported, d \in Dicts("env", pool, ne)}
        /\ primary \in Files("primary", pool, np)
        /\ keyfile \in Files("keys", pool, nk)
        /\ options \in Dicts("override", pool, no)
        /\ openai \in Clients(nc)

Init ==
    /\ \/ InitInputs(CoreKeys, Exported, MaxEntries)
       \/ InitInputs(SourceKeys, Exported \ {EmptyDict}, MaxProbes)
    /\ openai_pre = openai
    /\ pc = "new"
    /\ error = "none"
    /\ heap = <<>>
    /\ attrs = EmptyDict
    /\ held = {}
    /\ ret = NoCall

(***************************************************************************)
(* Config.__init__ (lines 47-52).                                          *)
(***************************************************************************)
ConfigsRef == 1

Construct ==
    /\ pc = "new"
    /\ LET merged == _init_with_config_files_and_env(EmptyDict, primary, keyfile, env)
       IN  IF merged.status # "ok"
           THEN /\ pc' = "failed"
                /\ error' = merged.status
                /\ heap' = <<merged.configs>>
                /\ UNCHANGED <<attrs, openai>>
           ELSE LET configs == ApplyOptions(merged.configs, options)
                    parsed == _parse(configs, openai)
                IN  /\ pc' = IF parsed.status = "ok" THEN "ready" ELSE "failed"
                    /\ error' = IF parsed.status = "ok" THEN "none" ELSE parsed.status
                    /\ heap' = <<configs>>
                    /\ attrs' = parsed.attrs
                    /\ openai' = parsed.openai
    /\ UNCHANGED <<env, primary, keyfile, options, openai_pre, held, ret>>

Next == Construct

Spec == Init /\ [][Next]_vars

(***************************************************************************)
(* The constructed object in use: get, runtime_options, and the caller's   *)
(* own writes (to the dicts it was handed, and to total_cost).             *)
(***************************************************************************)
store == heap[ConfigsRef]

\* a get without the check of lines 119-120
GetNeverRaises(configs, key, given, default) ==
    [outcome |-> "return", value |-> _get(configs, key, IF given THEN default ELSE None)]

\* lines 115-121: get(key) and get(key, default)
GetOutcome(configs, key, given, default) ==
    LET value == _get(configs, key, IF given THEN default ELSE None)
    IN  IF value = None
        THEN [outcome |-> "ValueError", value |-> None]
        ELSE [outcome |-> "return", value |-> value]

Get(key, given, default) ==
    /\ pc = "ready"
    /\ LET r == GetOutcome(store, key, given, default)
       IN  ret' = [op |-> "get", ref |-> 0, key |-> key, given |-> given,
                   default |-> default, outcome |-> r.outcome, value |-> r.value]
    /\ UNCHANGED <<env, primary, keyfile, options, openai, openai_pre, pc, error, heap, attrs, held>>

\* vars(self): the attributes and the _configs attribute itself
Vars(obj) == SetItem(obj, "_configs", [t |-> "dict", v |-> "self._configs"])

\* a runtime_options that returns self._configs itself
AliasConfigs(h) == ConfigsRef

\* line 126: opts = {} is a new object
NewDict(h) == Len(h) + 1

\* a runtime_options in which the raw keys overwrite the attributes
RawOverAttributes(configs, selfvars) ==
    Update([a \in DOMAIN selfvars \ {"_configs"} |-> selfvars[a]], configs)

\* lines 127-132: what the two loops write into opts
Written(configs, selfvars) ==
    Update(configs, [a \in DOMAIN selfvars \ {"_configs"} |-> selfvars[a]])

RuntimeOptions ==
    /\ pc = "ready"
    /\ Cardinality(held) < MaxSnapshots
    /\ LET opts == NewDict(heap)
           h1 == IF opts > Len(heap) THEN Append(heap, EmptyDict) ELSE heap
           h2 == [h1 EXCEPT ![opts] = Update(h1[opts], Written(h1[ConfigsRef], Vars(attrs)))]
       IN  /\ heap' = h2
           /\ held' = held \cup {opts}
           /\ ret' = [NoCall EXCEPT !.op = "runtime_options", !.ref = opts, !.outcome = "return"]
    /\ UNCHANGED <<env, primary, keyfile, options, openai, openai_pre, pc, error, attrs>>

\* the key and the value the caller writes into a dict it was handed: the
\* key is there to change or delete, and to add again once deleted
CallerKeys == {"total_cost"}
CallerValue == Str("written-by-caller")

\* opts[k] = v on a dict the caller holds
CallerSetItem(ref, k) ==
    /\ ref \in held
    /\ heap' = [heap EXCEPT ![ref] = SetItem(heap[ref], k, CallerValue)]
    /\ ret' = [NoCall EXCEPT !.op = "setitem", !.ref = ref, !.key = k]
    /\ UNCHANGED <<env, primary, keyfile, options, openai, openai_pre, pc, error, attrs, held>>

\* del opts[k] on a dict the caller holds
CallerDelItem(ref, k) ==
    /\ ref \in held
    /\ k \in DOMAIN heap[ref]
    /\ heap' = [heap EXCEPT ![ref] = DelItem(heap[ref], k)]
    /\ ret' = [NoCall EXCEPT !.op = "delitem", !.ref = ref, !.key = k]
    /\ UNCHANGED <<env, primary, keyfile, options, openai, openai_pre, pc, error, attrs, held>>

\* the costs the caller assigns
Costs == {Float("0.0"), Float("1.5")}

\* config.total_cost = cost
SetTotalCost(cost) ==
    /\ pc = "ready"
    /\ attrs' = SetItem(attrs, "total_cost", cost)
    /\ ret' = [NoCall EXCEPT !.op = "set_total_cost"]
    /\ UNCHANGED <<env, primary, keyfile, options, openai, openai_pre, pc, error, heap, held>>

\* the keys of the primary file and of options in these constructions: one
\* that may hold null, one spelled like an attribute
RuntimeKeys == {"Anthropic_API_KEY", "total_cost"}
\* the keys the caller asks get for: those, and one _parse reads with a default
GetKeys == RuntimeKeys \cup {"RPM"}

InitRuntime ==
    /\ env \in Exported \ {EmptyDict}
    /\ keyfile = File("missing", EmptyDict)
    /\ \E np, no \in 0..MaxRuntimeEntries :
        /\ np + no <= MaxRuntimeEntries
        /\ primary \in Files("primary", RuntimeKeys, np)
        /\ options \in Dicts("override", RuntimeKeys, no)
    /\ openai \in Clients(0)
    /\ openai_pre = openai
    /\ pc = "new"
    /\ error = "none"
    /\ heap = <<>>
    /\ attrs = EmptyDict
    /\ held = {}
    /\ ret = NoCall

NextRuntime ==
    \/ Construct
    \/ \E key \in GetKeys : Get(key, FALSE, None)
    \/ \E key \in GetKeys, default \in {None, Str("fallback")} : Get(key, TRUE, default)
    \/ RuntimeOptions
    \/ \E ref \in held, k \in CallerKeys : CallerSetItem(ref, k)
    \/ \E ref \in held, k \in CallerKeys : CallerDelItem(ref, k)
    \/ \E cost \in Costs : SetTotalCost(cost)

SpecRuntime == InitRuntime /\ [][NextRuntime]_vars

(***************************************************************************)
(* What the inputs of the construction determine, stated from the inputs.  *)
(***************************************************************************)
\* what a file gives the merge when it is skipped or read
Contribution(file) == IF file.kind = "mapping" THEN file.data ELSE EmptyDict

\* neither file stops the constructor
FilesLoad ==
    /\ primary.kind \in {"missing", "empty", "mapping"}
    /\ keyfile.kind \in {"missing", "empty", "mapping"}

SuppliedKeys ==
    DOMAIN env \cup DOMAIN Contribution(primary) \cup DOMAIN Contribution(keyfile)
        \cup DOMAIN options

\* the value of the highest-priority source that holds k
Winner(k) ==
    IF k \in DOMAIN options THEN options[k]
    ELSE IF k \in DOMAIN Contribution(keyfile) THEN keyfile.data[k]
    ELSE IF k \in DOMAIN Contribution(primary) THEN primary.data[k]
    ELSE env[k]

\* the credential under key k is absent, null, empty or the placeholder
Unusable(k) ==
    \/ k \notin SuppliedKeys
    \/ Winner(k) \in {None, Str(""), Str("YOUR_API_KEY")}

NoCredential == Unusable("OPENAI_API_KEY") /\ Unusable("Anthropic_API_KEY")

\* key k is absent or holds the value of a member of the enumeration cls
EngineKnown(k, cls) ==
    k \in SuppliedKeys => (Winner(k).t = "str" /\ Winner(k).v \in EnumValues(cls))

EnginesKnown ==
    /\ EngineKnown("SEARCH_ENGINE", "SearchEngineType")
    /\ EngineKnown("WEB_BROWSER_ENGINE", "WebBrowserEngineType")

\* the proxy _parse resolves: OPENAI_PROXY if present and non-empty, else GLOBAL_PROXY
ResolvedProxy ==
    IF "OPENAI_PROXY" \in SuppliedKeys /\ Winner("OPENAI_PROXY") \notin {None, Str("")}
    THEN Winner("OPENAI_PROXY")
    ELSE IF "GLOBAL_PROXY" \in SuppliedKeys THEN Winner("GLOBAL_PROXY") ELSE None

ProxyResolved == ResolvedProxy \notin {None, Str("")}

ResolvedBase == IF "OPENAI_API_BASE" \in SuppliedKeys THEN Winner("OPENAI_API_BASE") ELSE None

(***************************************************************************)
(* C1.  Merge priority.                                                    *)
(***************************************************************************)
\* C1 as stated: after construction the store holds, for every key, the value
\* of the highest-priority source holding it (override map > keys file >
\* primary file > environment), and get(K) returns the override value for
\* every key K of the override map.
C1_GetReturnsEveryOverride ==
    pc = "ready" =>
        /\ DOMAIN store = SuppliedKeys
        /\ \A k \in SuppliedKeys : store[k] = Winner(k)
        /\ \A k \in DOMAIN options :
              GetOutcome(store, k, FALSE, None) = [outcome |-> "return", value |-> options[k]]

\* C1 amended: the store holds, for every key, the value of the
\* highest-priority source holding it (override map > keys file > primary
\* file > environment); for every key K of the override map get(K) returns
\* the override value when that value is not null, and raises the
\* key-not-found error when it is null.
C1_MergePriority ==
    (pc # "new" /\ FilesLoad) =>
        /\ DOMAIN store = SuppliedKeys
        /\ \A k \in SuppliedKeys : store[k] = Winner(k)
        /\ \A k \in DOMAIN options :
              GetOutcome(store, k, FALSE, None) =
                  IF options[k] = None
                  THEN [outcome |-> "ValueError", value |-> None]
                  ELSE [outcome |-> "return", value |-> options[k]]

\* an override beats the keys file, which beats the environment, on one key
C1_Witness ==
    /\ pc = "ready"
    /\ \E k \in DOMAIN options \cap DOMAIN Contribution(keyfile) \cap DOMAIN env :
          /\ options[k] # keyfile.data[k]
          /\ keyfile.data[k] # env[k]
          /\ store[k] = options[k]

(***************************************************************************)
(* C2.  The credential check.                                              *)
(***************************************************************************)
\* C2: construction raises NotConfiguredException exactly when, in the
\* merged store after overrides, OPENAI_API_KEY and Anthropic_API_KEY are
\* each absent, empty (null or "") or the placeholder "YOUR_API_KEY".
C2_MissingCredentialExactly ==
    (pc # "new" /\ FilesLoad) =>
        ((pc = "failed" /\ error = "NotConfiguredException") <=> NoCredential)

\* only the alternate credential is set, the primary one is the placeholder
C2_Witness ==
    /\ pc = "ready"
    /\ "OPENAI_API_KEY" \in DOMAIN store
    /\ store["OPENAI_API_KEY"] = Str("YOUR_API_KEY")
    /\ "Anthropic_API_KEY" \in DOMAIN store
    /\ ~Unusable("Anthropic_API_KEY")

C5_MalformedIsSkipped ==
    (pc # "new" /\ primary.kind # "scalar" /\ keyfile.kind # "scalar") =>
        /\ DOMAIN attrs # {}
        /\ DOMAIN store = SuppliedKeys
        /\ \A k \in SuppliedKeys : store[k] = Winner(k)

\* C5 amended: a YAML source that is missing or empty is silently skipped:
\* it raises no error, contributes no keys, leaves the keys merged before it
\* unchanged, and the remaining sources are still merged (_parse is then
\* entered); a malformed source makes yaml.safe_load's error leave the
\* constructor.
C5_MissingOrEmptyIsSkipped ==
    pc # "new" =>
        /\ FilesLoad =>
              /\ DOMAIN attrs # {}
              /\ error \notin {"YAMLError", "TypeError", "FileNotFoundError"}
              /\ DOMAIN store = SuppliedKeys
              /\ \A k \in SuppliedKeys : store[k] = Winner(k)
        /\ (primary.kind = "malformed" \/ (primary.kind # "scalar" /\ keyfile.kind = "malformed"))
              => (pc = "failed" /\ error = "YAMLError" /\ DOMAIN attrs = {})

\* an empty primary file between the environment and a keys file that is read
C5_Witness ==
    /\ pc = "ready"
    /\ primary.kind = "empty"
    /\ keyfile.kind = "mapping"
    /\ env # EmptyDict
    /\ DOMAIN store = DOMAIN env \cup DOMAIN keyfile.data

(***************************************************************************)
(* C8.  The named fields and their defaults.                               *)
(***************************************************************************)
\* the value a plain lookup of key k with default d must give
Looked(k, d) == IF k \in SuppliedKeys THEN Winner(k) ELSE d

\* C8: after a successful construction every field resolved by a plain
\* lookup equals the store's value for its key when the key is present and
\* otherwise its declared default (requests-per-minute 3, model name
\* "gpt-4", max response tokens 2048, budget ceiling 10.0, long-term-memory
\* false) or null when none is declared; the running cost is 0.
C8_FieldsAndDefaults ==
    pc = "ready" =>
        /\ attrs["openai_api_rpm"] = Looked("RPM", Int("3"))
        /\ attrs["openai_api_model"] = Looked("OPENAI_API_MODEL", Str("gpt-4"))
        /\ attrs["max_tokens_rsp"] = Looked("MAX_TOKENS", Int("2048"))
        /\ attrs["max_budget"] = Looked("MAX_BUDGET", Float("10.0"))
        /\ attrs["long_term_memory"] = Looked("LONG_TERM_MEMORY", Bool("False"))
        /\ attrs["playwright_browser_type"] = Looked("PLAYWRIGHT_BROWSER_TYPE", Str("chromium"))
        /\ attrs["selenium_browser_type"] = Looked("SELENIUM_BROWSER_TYPE", Str("chrome"))
        /\ attrs["puppeteer_config"] = Looked("PUPPETEER_CONFIG", Str(""))
        /\ attrs["mmdc"] = Looked("MMDC", Str("mmdc"))
        /\ attrs["calc_usage"] = Looked("CALC_USAGE", Bool("True"))
        /\ attrs["global_proxy"] = Looked("GLOBAL_PROXY", None)
        /\ attrs["openai_api_key"] = Looked("OPENAI_API_KEY", None)
        /\ attrs["anthropic_api_key"] = Looked("Anthropic_API_KEY", None)
        /\ attrs["claude_api_key"] = Looked("Anthropic_API_KEY", None)
        /\ attrs["openai_api_base"] = Looked("OPENAI_API_BASE", None)
        /\ attrs["openai_api_type"] = Looked("OPENAI_API_TYPE", None)
        /\ attrs["openai_api_version"] = Looked("OPENAI_API_VERSION", None)
        /\ attrs["deployment_id"] = Looked("DEPLOYMENT_ID", None)
        /\ attrs["serpapi_api_key"] = Looked("SERPAPI_API_KEY", None)
        /\ attrs["serper_api_key"] = Looked("SERPER_API_KEY", None)
        /\ attrs["google_api_key"] = Looked("GOOGLE_API_KEY", None)
        /\ attrs["google_cse_id"] = Looked("GOOGLE_CSE_ID", None)
        /\ attrs["model_for_researcher_summary"] = Looked("MODEL_FOR_RESEARCHER_SUMMARY", None)
        /\ attrs["model_for_researcher_report"] = Looked("MODEL_FOR_RESEARCHER_REPORT", None)
        /\ attrs["total_cost"] = Float("0.0")
        /\ Cardinality(DOMAIN attrs) = Len(CredentialRows) + Len(ClientRows) + Len(ToolRows) + 3

\* one field taken from the store, another from its default
C8_Witness ==
    /\ pc = "ready"
    /\ "RPM" \in DOMAIN store
    /\ attrs["openai_api_rpm"] = store["RPM"]
    /\ attrs["openai_api_rpm"] # Int("3")
    /\ "OPENAI_API_MODEL" \notin DOMAIN store
    /\ attrs["openai_api_model"] = Str("gpt-4")

(***************************************************************************)
(* C9.  The openai client's globals.                                       *)
(***************************************************************************)
\* C9: when construction passes the credential check and a proxy is resolved
\* (OPENAI_PROXY if present and non-empty, otherwise GLOBAL_PROXY),
\* openai.proxy is that value and openai.api_base is the resolved
\* OPENAI_API_BASE; when neither proxy key resolves to a non-empty value both
\* settings stay as they were.
C9_ProxySideEffect ==
    (pc # "new" /\ FilesLoad /\ ~NoCredential) =>
        IF ProxyResolved
        THEN openai = [proxy |-> ResolvedProxy, api_base |-> ResolvedBase]
        ELSE openai = openai_pre

\* an empty OPENAI_PROXY falls back to GLOBAL_PROXY
C9_Witness ==
    /\ pc = "ready"
    /\ "OPENAI_PROXY" \in DOMAIN store
    /\ store["OPENAI_PROXY"] = Str("")
    /\ "GLOBAL_PROXY" \in DOMAIN store
    /\ openai.proxy = store["GLOBAL_PROXY"]
    /\ openai # openai_pre

(***************************************************************************)
(* C10.  The globals after a failed construction.                          *)
(***************************************************************************)
\* C10 as stated: a construction that fails leaves openai.proxy and
\* openai.api_base as they were before it started.
C10_FailureLeavesClient ==
    pc = "failed" => openai = openai_pre

\* C10 amended: a construction that fails while the YAML files are loaded or
\* in the credential check leaves openai.proxy and openai.api_base as they
\* were; one that fails later, in the conversion of SEARCH_ENGINE or
\* WEB_BROWSER_ENGINE, has already set them when a proxy was resolved.
C10_EarlyFailureLeavesClient ==
    pc = "failed" =>
        /\ (~FilesLoad \/ error = "NotConfiguredException") => openai = openai_pre
        /\ (FilesLoad /\ error = "ValueError" /\ ProxyResolved) =>
               openai = [proxy |-> ResolvedProxy, api_base |-> ResolvedBase]

\* the credential check fails with a proxy in the store and a client that an
\* earlier caller configured
C10_Witness ==
    /\ pc = "failed"
    /\ error = "NotConfiguredException"
    /\ ProxyResolved
    /\ openai = openai_pre
    /\ openai.proxy = Str("http://earlier-proxy")

(***************************************************************************)
(* C4.  get.                                                               *)
(***************************************************************************)
\* C4 as stated: get returns the store's value when the key is present,
\* returns the supplied default when the key is absent and a default was
\* given, and raises only when the key is absent and no default was given.
C4_RaisesOnlyWhenAbsent ==
    ret.op = "get" =>
        IF ret.key \in DOMAIN store
        THEN ret.outcome = "return" /\ ret.value = store[ret.key]
        ELSE IF ret.given
        THEN ret.outcome = "return" /\ ret.value = ret.default
        ELSE ret.outcome = "ValueError"

\* C4 amended: get consults only the raw merged store (never the typed
\* fields or their defaults): it looks up the store's value when the key is
\* present, the supplied default when the key is absent and a default was
\* given, and null otherwise; it returns what it looked up unless that is
\* null, and raises the key-not-found error exactly when it is null (the key
\* is absent with no default or a null default, or present with a null value).
C4_RaisesOnNull ==
    ret.op = "get" =>
        LET looked == IF ret.key \in DOMAIN store THEN store[ret.key]
                      ELSE IF ret.given THEN ret.default ELSE None
        IN  IF looked = None
            THEN ret.outcome = "ValueError"
            ELSE ret.outcome = "return" /\ ret.value = looked

\* get raises on a key the store holds with a null value, with a default given
C4_Witness ==
    /\ ret.op = "get"
    /\ ret.key \in DOMAIN store
    /\ store[ret.key] = None
    /\ ret.given
    /\ ret.default = Str("fallback")
    /\ ret.outcome = "ValueError"

(***************************************************************************)
(* C6.  runtime_options.                                                   *)
(***************************************************************************)
\* C6: runtime_options returns a mapping whose keys are the raw-store keys
\* and the named-field names (not the raw-store holder); each named field
\* maps to its current value (the current running cost included), every
\* other key to its raw-store value, and a field wins over a raw key of the
\* same name.
C6_RuntimeOptionsContent ==
    ret.op = "runtime_options" =>
        LET opts == heap[ret.ref]
        IN  /\ DOMAIN opts = DOMAIN store \cup DOMAIN attrs
            /\ "_configs" \notin DOMAIN opts
            /\ \A k \in DOMAIN opts :
                  opts[k] = IF k \in DOMAIN attrs THEN attrs[k] ELSE store[k]

\* the raw key total_cost is hidden by the running cost the caller assigned
C6_Witness ==
    /\ ret.op = "runtime_options"
    /\ "total_cost" \in DOMAIN store
    /\ attrs["total_cost"] = Float("1.5")
    /\ heap[ret.ref]["total_cost"] = Float("1.5")
    /\ store["total_cost"] # Float("1.5")
    /\ heap[ret.ref]["OPENAI_API_KEY"] = store["OPENAI_API_KEY"]
    /\ heap[ret.ref]["openai_api_key"] = attrs["openai_api_key"]

(***************************************************************************)
(* C7.  What the calls leave alone.                                        *)
(***************************************************************************)
\* C7: after construction, under any sequence of get calls, runtime_options
\* calls and writes to the mappings runtime_options returned, the raw store
\* and every named field keep their values, and a write to one returned
\* mapping is not visible in another; the running cost is the only state that
\* changes, and only when the caller assigns it.
C7_CallsLeaveConfigAlone ==
    [][pc = "ready" =>
          /\ heap'[ConfigsRef] = heap[ConfigsRef]
          /\ ConfigsRef \notin held'
          /\ DOMAIN attrs' = DOMAIN attrs
          /\ \A a \in DOMAIN attrs \ {"total_cost"} : attrs'[a] = attrs[a]
          /\ attrs' # attrs => ret'.op = "set_total_cost"
          /\ \A r \in held :
                heap'[r] # heap[r] => (ret'.op \in {"setitem", "delitem"} /\ ret'.ref = r)
          /\ <<env, primary, keyfile, options, openai, pc, error>>' =
                 <<env, primary, keyfile, options, openai, pc, error>>]_vars

\* two returned mappings: the caller wrote to a key of one after assigning the
\* running cost; the other mapping and the object are as they were
C7_Witness ==
    /\ pc = "ready"
    /\ ret.op = "setitem"
    /\ \E r1, r2 \in held :
          /\ r1 # r2
          /\ ret.ref = r1
          /\ heap[r1]["total_cost"] = CallerValue
          /\ "total_cost" \in DOMAIN heap[r2]
          /\ heap[r2]["total_cost"] = Float("0.0")
    /\ attrs["total_cost"] = Float("1.5")
    /\ "total_cost" \notin DOMAIN store

====
